---- MODULE Spec2Model ----
(***************************************************************************)
(* RABIES as state machines, one specification per part of the program:   *)
(*   Spec       DatasetDiagnosis._run_interface (diagnosis_pkg/interfaces) *)
(*   SpecCLI    execute_workflow, preprocess, confound_correction and      *)
(*              analysis of run_main.py, one command line after another    *)
(*   SpecMasks  PrepMasks._run_interface                                   *)
(*   SpecScan   ScanDiagnosis._run_interface                               *)
(*   SpecRuns   a command line or a DatasetDiagnosis run                   *)
(*   SpecBoldOnly  the --bold_only block of preprocess (run_main.py)       *)
(* One action per statement group of a method; the inputs of a part are   *)
(* fixed in its Init, and the parts that a specification does not run are *)
(* held idle.                                                              *)
(***************************************************************************)
EXTENDS Integers, Sequences, FiniteSets, TLC

\* ------------------------------------------------------------------ bounds
MaxScans == 3       \* scans in spatial_info_list: 0..MaxScans
MaxComp == 2        \* prior maps, DR maps and dual-ICA components per scan
MaxSeeds == 1       \* seed priors and seed maps per scan
MaxRuns == 2        \* runs of the interface on the same working directory
MaskVoxels == 2     \* voxels inside the brain mask
MaxInvocations == 3 \* command lines run against one output directory
MaxVoxelValue == 2  \* voxel values of an atlas file: 0..MaxVoxelValue
ImageVoxels == 4    \* voxels along the axis of the image the brain mask lies on

\* the sample-size threshold of line 192
MinSample == 3

OtherVoxels == MaskVoxels + 1

\* ------------------------------------------------------------------ inputs
\* A cohort is a uniform base (n scans, N prior maps, k DR maps, d dual-ICA
\* components, m seed maps per scan, s seed priors) in which at most one
\* thing deviates: one vector of scan `at` has another voxel length, scan
\* `at` has one component, prior or seed map less, one seed map of scan `at`
\* has another image shape than the brain mask, or one of the two other
\* lists is one entry shorter than spatial_info_list.
Kinds ==
    {"none", "std_len", "VE_len", "DR_len", "dual_ICA_len", "DR_count",
     "dual_ICA_count", "prior_count", "seed_shape", "seed_count",
     "short_analysis", "short_file", "short_file_prior_count"}

\* the kinds that shorten a list rather than change one scan
ShortKinds == {"short_analysis", "short_file", "short_file_prior_count"}

Params ==
    [n : 0..MaxScans, N : 0..MaxComp, k : 0..MaxComp, d : 0..MaxComp,
     m : 0..MaxSeeds, s : 0..MaxSeeds, kind : Kinds, at : 0..MaxScans]

ValidParams(p) ==
    /\ p.kind \in {"none"} \cup ShortKinds => p.at = 0
    /\ p.kind \notin {"none"} \cup ShortKinds => p.at \in 1..p.n
    /\ p.kind \in ShortKinds => p.n >= 1
    /\ p.kind = "short_file_prior_count" => (p.n >= 3 /\ p.N >= 1)
    /\ p.kind \in {"DR_len", "DR_count"} => p.k >= 1
    /\ p.kind \in {"dual_ICA_len", "dual_ICA_count"} => p.d >= 1
    /\ p.kind = "prior_count" => p.N >= 1
    /\ p.kind \in {"seed_shape", "seed_count"} => p.m >= 1

Hit(p, j, kind) == p.kind = kind /\ p.at = j

VoxLen(p, j, kind) == IF Hit(p, j, kind) THEN OtherVoxels ELSE MaskVoxels

\* spatial_info of scan j: the voxel length of each vector, one entry per
\* component for the 2-D features; prior_maps as the row ids of the stack
SpatialInfo(p, j) ==
    [temporal_std  |-> VoxLen(p, j, "std_len"),
     VE_spatial    |-> VoxLen(p, j, "VE_len"),
     DR_BOLD       |-> [c \in 1..(IF Hit(p, j, "DR_count") THEN p.k - 1 ELSE p.k)
                          |-> VoxLen(p, j, "DR_len")],
     dual_ICA_maps |-> [c \in 1..(IF Hit(p, j, "dual_ICA_count") THEN p.d - 1 ELSE p.d)
                          |-> VoxLen(p, j, "dual_ICA_len")],
     prior_maps    |-> [c \in 1..(IF \/ Hit(p, j, "prior_count")
                                        \/ (p.kind = "short_file_prior_count" /\ j = p.n)
                                     THEN p.N - 1 ELSE p.N)
                          |-> c]]

\* analysis_dict of scan j: seed_map_files, each file by the voxel count of
\* its image grid (MaskVoxels when it is on the brain mask's grid)
AnalysisDict(p, j) ==
    [seed_map_files |->
        [c \in 1..(IF Hit(p, j, "seed_count") THEN p.m - 1 ELSE p.m)
            |-> IF c = 1 THEN VoxLen(p, j, "seed_shape") ELSE MaskVoxels]]

\* file_dict of scan j: CR_data_dict['tDOF']
FileDict(p, j) == [tDOF |-> j]

Cohort(p) ==
    [spatial  |-> [j \in 1..p.n |-> SpatialInfo(p, j)],
     analysis |-> [j \in 1..(IF p.kind = "short_analysis" THEN p.n - 1 ELSE p.n)
                     |-> AnalysisDict(p, j)],
     file     |-> [j \in 1..(IF p.kind \in {"short_file", "short_file_prior_count"}
                                THEN p.n - 1 ELSE p.n)
                     |-> FileDict(p, j)],
     seeds    |-> [c \in 1..p.s |-> 100 + c]]

Cohorts == {Cohort(p) : p \in {q \in Params : ValidParams(q)}}

\* ------------------------------------------------------------------- state
VARIABLES
    spatial_info_list,    \* merged_spatial_info (line 189)
    analysis_dict_list,   \* merged_analysis_dict (line 190)
    file_dict_list,       \* merged_file_dict (line 191)
    seed_prior_maps,      \* self.inputs.seed_prior_maps
    np_ragged,            \* what np.array does with a ragged list in this build
    pc,                   \* position in _run_interface
    i,                    \* loop index of the current per-component loop
    arrays,               \* std_maps, VE_maps, DR_maps_list, ... and prior_maps, num_priors
    dir_exists,           \* os.path.isdir(out_dir)
    disk,                 \* files on disk: name -> content
    log,                  \* names written by the current run, in order
    err,                  \* the exception that ended the current run, with its stage
    dataset_stats,        \* the result of analysis_QC that to_csv is about to write
    dataset_diagnosis,    \* the output trait set on line 271
    run,                  \* number of the current run
    prev                  \* outcome and files of the previous run

\* the command line `rabies <step> ...` (run_main.py, execute_workflow)
VARIABLES
    files,                \* the files and options the command line names
    folder_exists,        \* os.path.isdir(output_folder)
    output_folder,        \* files of the output directory: name -> content
    opts,                 \* the parsed command line of the current invocation
    cli_pc,               \* position in execute_workflow
    file_idx,             \* position of preprocess in its sequence of atlas files
    workflow,             \* the workflow object: "none", "built" or "ran"
    wf_args,              \* the constructor and the option records it was built from
    raised,               \* the exception that left execute_workflow
    invocation,           \* number of the current invocation
    before                \* output_folder when the current invocation began

\* the PrepMasks node (interfaces.py 35-71)
VARIABLES
    mask_dict_list,       \* self.inputs.mask_dict_list, flattened
    DSURQE_regions,       \* self.inputs.DSURQE_regions
    environ,              \* the names defined in os.environ
    atlas_dirs,           \* the directories that hold the hemisphere masks
    nifti,                \* voxels of each brain mask file: path -> set of voxels
    border,               \* how the erosion treats voxels outside the image
    pm_pc,                \* position in PrepMasks._run_interface
    hemispheres,          \* right_hem_mask_file and left_hem_mask_file
    cwd,                  \* files written to the working directory: name -> content
    mask_file_dict,       \* the output trait set on line 70
    pm_err,               \* the exception that ended the run
    consulted             \* environment names and atlas directories read so far

\* the ScanDiagnosis node (interfaces.py 119-147)
VARIABLES
    file_dict,            \* self.inputs.file_dict
    prior_bold_idx,       \* self.inputs.prior_bold_idx
    prior_confound_idx,   \* self.inputs.prior_confound_idx
    amplitudes,           \* amplitude of each prior component in this scan
    sd_pc,                \* position in ScanDiagnosis._run_interface
    scan_info,            \* temporal_info and spatial_info of process_data
    figures,              \* the figures saved: name -> content
    scan_outputs,         \* the four output traits set on lines 140-145
    sd_err                \* the exception that ended the run

\* the --bold_only block of preprocess (run_main.py 597-636)
VARIABLES
    data_home,            \* the directory string rabies_path is made from
    argv,                 \* the command line: --bold_only, step, options typed
    template_opts,        \* opts.anat_template .. opts.labels, analysis_opts.prior_maps
    bo_pc,                \* position in the block
    bo_log                \* the options logged as changed

masks_vars ==
    <<mask_dict_list, DSURQE_regions, environ, atlas_dirs, nifti, border, pm_pc,
      hemispheres, cwd, mask_file_dict, pm_err, consulted>>

scan_vars ==
    <<file_dict, prior_bold_idx, prior_confound_idx, amplitudes, sd_pc,
      scan_info, figures, scan_outputs, sd_err>>

bold_only_vars == <<data_home, argv, template_opts, bo_pc, bo_log>>

diagnosis_vars ==
    <<spatial_info_list, analysis_dict_list, file_dict_list, seed_prior_maps,
      np_ragged, pc, i, arrays, dir_exists, disk, log, err,
      dataset_stats, dataset_diagnosis, run, prev>>

cli_vars ==
    <<files, folder_exists, output_folder, opts, cli_pc, file_idx, workflow,
      wf_args, raised, invocation, before>>

vars == <<diagnosis_vars, cli_vars, masks_vars, scan_vars, bold_only_vars>>

\* what a step of DatasetDiagnosis leaves alone: the other parts of the program
other_nodes == <<cli_vars, masks_vars, scan_vars, bold_only_vars>>

inputs == <<spatial_info_list, analysis_dict_list, file_dict_list, seed_prior_maps,
            np_ragged>>

NoErr == [type |-> "none", stage |-> "none"]
NoArrays == [stacked |-> FALSE]
NoPrev == [pc |-> "none", disk |-> <<>>]
NoStats == [format |-> "none"]
\* a rendered figure; its pixels are not modelled
Png == [format |-> "png"]

\* ------------------------------------------------------------- file names
\* f'{out_dir}/{family}{i}_QC_maps.png' and f'{out_dir}/{family}{i}_QC_stats.csv'
\* are injective in (family, i, suffix): a name is that triple
Families == {"DR", "dual_ICA", "seed_FC"}
FigName(family, c) == <<family, c, "_QC_maps.png">>
CsvNameMutant(family, c) == <<family, c + 1, "_QC_stats.csv">>
CsvName(family, c) == <<family, c, "_QC_stats.csv">>
CrossCorrName == <<"spatial_crosscorrelations", 0, ".png">>
\* the two figures ScanDiagnosis wrote for scan j (lines 137-138), in the
\* working directory of that node
ScanFigName(j, suffix) == <<"scan", j, suffix>>
ScanFigs(n) ==
    {ScanFigName(j, sfx) : j \in 1..n,
        sfx \in {"_temporal_diagnosis.png", "_spatial_diagnosis.png"}}

IsCsv(name) == name[3] = "_QC_stats.csv"
InDatasetDir(name) == name[1] \in Families \cup {"spatial_crosscorrelations"}

\* writing a file creates or overwrites it
WriteFile(d, name, content) ==
    [x \in DOMAIN d \cup {name} |-> IF x = name THEN content ELSE d[x]]

Range(q) == {q[x] : x \in DOMAIN q}

Min(a, b) == IF a < b THEN a ELSE b

\* ------------------------------------------------------------------ numpy
\* np.array of one vector per scan (228-229): a 2-D array when the vectors
\* have one length, a 1-D object array otherwise
np_array_1d(list) ==
    [ok    |-> \A a, b \in DOMAIN list : list[a] = list[b],
     rows  |-> Len(list),
     comps |-> 0]

\* np.array of one list of vectors per scan (230-231, 263): a 3-D array
\* (scans x components x voxels) when every scan has the same number of
\* components and every vector the same length, an object array of fewer
\* dimensions otherwise
np_array(list) ==
    [ok    |-> /\ \A a, b \in DOMAIN list : Len(list[a]) = Len(list[b])
               /\ \A a, b \in DOMAIN list :
                    \A x \in DOMAIN list[a], y \in DOMAIN list[b] :
                        list[a][x] = list[b][y],
     rows  |-> Len(list),
     comps |-> IF list = <<>> THEN 0 ELSE Len(list[1])]

\* a ragged list raises ValueError in a numpy that refuses inhomogeneous
\* shapes and gives an object array in one that does not
NpArrayRaises(a) == ~a.ok /\ np_ragged = "raise"

\* arr[:, c, :] (236, 243, 265): IndexError on an array of fewer than three
\* dimensions and on a component index out of range
SliceOk(arr, c) == arr.ok /\ c < arr.comps

\* arr.shape[1] (241): IndexError on a 1-D array
ShapeOk(arr) == arr.ok

\* np.asarray(nb.load(seed_map).dataobj)[volume_indices] (224-225): the
\* boolean mask must have the shape of the image
LoadSeedOkMutant(seed_map) == TRUE
LoadSeedOk(seed_map) == seed_map = MaskVoxels

\* ----------------------------------------------- functions outside src/
\* spatial_crosscorrelations(merged_spatial_info, scaled, mask_file, fig_path)
\* stacks the spatial features of every scan: it needs every vector of
\* every scan to have one voxel length
spatial_crosscorrelations_ok(merged) ==
    \A a \in DOMAIN merged :
        LET si == merged[a] IN
        /\ si.temporal_std = MaskVoxels
        /\ si.VE_spatial = MaskVoxels
        /\ \A c \in DOMAIN si.DR_BOLD : si.DR_BOLD[c] = MaskVoxels
        /\ \A c \in DOMAIN si.dual_ICA_maps : si.dual_ICA_maps[c] = MaskVoxels

\* analysis_QC(FC_maps, prior, mask_file, std_maps, VE_maps, tdof_list,
\* template_file, fig_path) renders fig_path and returns the statistics, a
\* function of its arguments
analysis_QC(FC_rows, prior, std_maps, VE_maps, tdof_list) ==
    [rows |-> FC_rows, prior |-> prior, std |-> std_maps.rows,
     VE |-> VE_maps.rows, tdof |-> tdof_list]

\* ------------------------------------------------------------------- Init
\* ------------------------------------------------- command-line inputs
\* run_main.py 32-46: the three sub-commands of the parser
Steps == {"preprocess", "confound_correction", "analysis"}

\* error_check_rabies.py 54-103: the command words of its six commands,
\* each run with check=True against the same outputs directory
ScriptCommands ==
    <<"preprocess", "preprocess", "confound_regression", "confound_regression",
      "analysis", "analysis">>

\* a command line names one of these words, or no sub-command at all
CommandWords == Steps \cup Range(ScriptCommands) \cup {"no_command"}

\* the atlas files of preprocess in the order it checks them (656-682)
MaskOrder == <<"brain_mask", "WM_mask", "CSF_mask", "vascular_mask", "labels">>

\* voxel values of a mask file, and its voxel array
VoxelValues == 0..MaxVoxelValue
MaskArrays == [1..MaskVoxels -> VoxelValues]

\* origin and direction of the anatomical template after convert_to_RAS
TemplateGeometry == [origin |-> 0, direction |-> 0]
Geometries == [origin : 0..1, direction : 0..1]

\* an atlas file: whether it exists, its voxels, and the header geometry
\* of its copy in template_files that check_template_overlap reads
GoodFile ==
    [isfile |-> TRUE, array |-> [v \in 1..MaskVoxels |-> v % 2],
     geometry |-> TemplateGeometry]

AtlasFiles ==
    {[GoodFile EXCEPT !.isfile = FALSE]}
        \cup {[GoodFile EXCEPT !.array = a] : a \in MaskArrays}
        \cup {[GoodFile EXCEPT !.geometry = g] : g \in Geometries}

\* --nativespace_resampling and the like, as the parts between its 'x's:
\* each part parses as a float ("num") or does not ("word")
InputsDefined == <<"inputs_defined">>
ResamplingOptions ==
    {"nativespace_resampling", "commonspace_resampling", "anatomical_resampling"}
Resamplings ==
    {InputsDefined, <<"num", "num", "num">>, <<"num", "num">>, <<"num">>,
     <<"num", "word", "num">>, <<"num", "num", "num", "num">>}

\* --data_type as typed on the command line, and the choices of line 128
DataTypes == {"int16", "int32", "float32", "float64", "float16"}
ValidDataTypes == {"int16", "int32", "float32", "float64"}

GoodInputs ==
    [bids_dir |-> TRUE, data_type |-> "float32", brain_extraction |-> FALSE,
     masking |-> FALSE, anat_template |-> TRUE,
     atlas |-> [f \in Range(MaskOrder) |-> GoodFile],
     resampling |-> [r \in ResamplingOptions |-> InputsDefined]]

\* the command-line inputs: those of GoodInputs with at most one of them
\* replaced
CommandInputs ==
    {[GoodInputs EXCEPT !.bids_dir = FALSE],
     [GoodInputs EXCEPT !.anat_template = FALSE],
     [GoodInputs EXCEPT !.brain_extraction = TRUE],
     [GoodInputs EXCEPT !.brain_extraction = TRUE, !.masking = TRUE]}
        \cup {[GoodInputs EXCEPT !.data_type = t] : t \in DataTypes}
        \cup {[GoodInputs EXCEPT !.atlas[f] = a] :
                f \in Range(MaskOrder), a \in AtlasFiles}
        \cup {[GoodInputs EXCEPT !.resampling[r] = x] :
                r \in ResamplingOptions, x \in Resamplings}

NoOpts == [rabies_step |-> "none", read_datasink |-> FALSE, invocation |-> 0]
NoExc == [type |-> "none", at |-> "none"]
\* no workflow is built
NoArgs == [kind |-> "none"]

\* no command line is run
CliIdle ==
    /\ files = GoodInputs
    /\ folder_exists = FALSE
    /\ output_folder = <<>>
    /\ opts = NoOpts
    /\ cli_pc = "off"
    /\ file_idx = 0
    /\ workflow = "none"
    /\ wf_args = NoArgs
    /\ raised = NoExc
    /\ invocation = 0
    /\ before = <<>>

\* ------------------------------------------------------ PrepMasks inputs
\* paths are triples: the files of subject s, the files the node writes to
\* its working directory, and the '' of lines 59-60
SubjectPath(s, key) == <<"sub", s, key>>
WorkPath(name) == <<"cwd", 0, name>>
EmptyPath == <<"", 0, "">>
NoPath == <<"unset", 0, "">>

\* the mask dictionary of subject s, with the four keys lines 39-45 read
MaskDict(s) ==
    [mask_file |-> SubjectPath(s, "mask_file"),
     WM_mask_file |-> SubjectPath(s, "WM_mask_file"),
     CSF_mask_file |-> SubjectPath(s, "CSF_mask_file"),
     preprocess_anat_template |-> SubjectPath(s, "preprocess_anat_template")]

\* the flattened list of n dictionaries: all those of one subject, or each
\* that of its own subject
MaskDictLists ==
    {[j \in 1..n |-> MaskDict(IF shared THEN 1 ELSE j)] :
        n \in 0..MaxScans, shared \in BOOLEAN}

Image == 1..ImageVoxels
\* the voxels of the brain masks: m for subject 1, the rest of the image
\* for the others
MaskImages(m) ==
    [x \in {SubjectPath(s, "mask_file") : s \in 1..MaxScans} |->
        IF x[2] = 1 THEN m ELSE Image \ m]

EnvNames == {"XDG_DATA_HOME", "HOME"}
\* $XDG_DATA_HOME/rabies and $HOME/.local/share/rabies
AtlasDirs == {"xdg", "home"}
\* voxels outside the image count as background or are left out
Borders == {"background", "ignored"}

NoHemispheres == [right |-> NoPath, left |-> NoPath]
Unset(d) == DOMAIN d = {}

\* the PrepMasks node is not run
MasksIdle ==
    /\ mask_dict_list = <<>>
    /\ DSURQE_regions = FALSE
    /\ environ = {}
    /\ atlas_dirs = {}
    /\ nifti = <<>>
    /\ border = "background"
    /\ pm_pc = "off"
    /\ hemispheres = NoHemispheres
    /\ cwd = <<>>
    /\ mask_file_dict = <<>>
    /\ pm_err = NoErr
    /\ consulted = {}

\* -------------------------------------------------- ScanDiagnosis inputs
\* the name of bold_file as the parts between its ".nii"s:
\* sub-01_bold.nii.gz, sub-01_bold.h5 and sub-01.nii_bold.nii.gz
BoldFiles ==
    {<<"sub-01_bold", ".gz">>, <<"sub-01_bold.h5">>, <<"sub-01", "_bold", ".gz">>}

\* the prior components and the index lists over them
Components == 0..(MaxComp - 1)
IdxLists == UNION {[1..n -> Components] : n \in 0..MaxComp}
Amplitudes == [Components -> 1..2]

NoInfo == [computed |-> FALSE]

\* the ScanDiagnosis node is not run
ScanIdle ==
    /\ file_dict = <<>>
    /\ prior_bold_idx = <<>>
    /\ prior_confound_idx = <<>>
    /\ amplitudes = <<>>
    /\ sd_pc = "off"
    /\ scan_info = NoInfo
    /\ figures = <<>>
    /\ scan_outputs = <<>>
    /\ sd_err = NoErr

\* ------------------------------------------- --bold_only (run_main.py 597-636)
\* a path string as the segments between its '/'s, an empty segment where
\* two '/' meet. The directory rabies_path is made from (11-14): $HOME with
\* '/.local/share' after it, or $XDG_DATA_HOME, here set to '/data/'
DataHomes == {<<"home", "user", ".local", "share">>, <<"data", "">>}
cli_rabies_path(home) == Append(home, "rabies")

\* f"{rabies_path}/{name}"
FString(dir, name) == Append(dir, name)

\* str(Path(s)): pathlib drops the empty and the '.' segments of s
PathStr(s) == SelectSeq(s, LAMBDA x : x # "" /\ x # ".")

\* os.path.abspath of an absolute path, which normalises it
abspath(s) == SelectSeq(s, LAMBDA x : x # "" /\ x # ".")

TemplateOptions ==
    <<"anat_template", "brain_mask", "WM_mask", "CSF_mask", "vascular_mask",
      "labels">>
AtlasOptions == Range(TemplateOptions) \cup {"prior_maps"}

\* the file names of the parser defaults (239-266, 416) and of their EPI
\* counterparts (601-626)
DSURQE_default ==
    [anat_template |-> "DSURQE_40micron_average.nii.gz",
     brain_mask |-> "DSURQE_40micron_mask.nii.gz",
     WM_mask |-> "DSURQE_40micron_eroded_WM_mask.nii.gz",
     CSF_mask |-> "DSURQE_40micron_eroded_CSF_mask.nii.gz",
     vascular_mask |-> "vascular_mask.nii.gz",
     labels |-> "DSURQE_40micron_labels.nii.gz",
     prior_maps |-> "melodic_IC.nii.gz"]
EPI_counterpart ==
    [anat_template |-> "EPI_template.nii.gz",
     brain_mask |-> "EPI_brain_mask.nii.gz",
     WM_mask |-> "EPI_WM_mask.nii.gz",
     CSF_mask |-> "EPI_CSF_mask.nii.gz",
     vascular_mask |-> "EPI_vascular_mask.nii.gz",
     labels |-> "EPI_labels.nii.gz",
     prior_maps |-> "melodic_IC_resampled.nii.gz"]

\* what a user types for an atlas option: a file of their own, or the
\* default file, written as the parser writes it or in its shortest form
UserPaths(home, o) ==
    {<<"atlas", "custom.nii.gz">>,
     FString(cli_rabies_path(home), DSURQE_default[o]),
     PathStr(FString(cli_rabies_path(home), DSURQE_default[o]))}

\* the command lines the options come from: --bold_only or not, preprocess
\* alone or with the options of an analysis, and at most one atlas option
\* typed (<<>> for an option left to its default)
NotTyped == [o \in AtlasOptions |-> <<>>]
NoArgv == [bold_only |-> FALSE, step |-> "none", typed |-> NotTyped]
CommandLines(home) ==
    {[bold_only |-> b, step |-> s, typed |-> t] :
        b \in BOOLEAN, s \in {"preprocess", "analysis"},
        t \in {NotTyped} \cup
              UNION {{[NotTyped EXCEPT ![o] = p] : p \in UserPaths(home, o)} :
                        o \in AtlasOptions}}

\* argparse with type=Path: the typed string, or the default string, is
\* made a Path; held here as the string of that Path. Without analysis
\* options there is no prior_maps.
parse_args(home, a) ==
    [o \in AtlasOptions |->
        IF o = "prior_maps" /\ a.step # "analysis"
        THEN <<>>
        ELSE PathStr(IF a.typed[o] = <<>>
                     THEN FString(cli_rabies_path(home), DSURQE_default[o])
                     ELSE a.typed[o])]

\* the --bold_only block of preprocess is not run
BoldOnlyIdle ==
    /\ data_home = <<>>
    /\ argv = NoArgv
    /\ template_opts = <<>>
    /\ bo_pc = "off"
    /\ bo_log = {}

Init ==
    /\ \E c \in Cohorts :
        /\ spatial_info_list = c.spatial
        /\ analysis_dict_list = c.analysis
        /\ file_dict_list = c.file
        /\ seed_prior_maps = c.seeds
        /\ disk = [x \in ScanFigs(Len(c.spatial)) |-> Png]
    /\ np_ragged \in {"raise", "object"}
    /\ pc = "start"
    /\ i = 0
    /\ arrays = NoArrays
    /\ dir_exists = FALSE
    /\ log = <<>>
    /\ err = NoErr
    /\ dataset_stats = NoStats
    /\ dataset_diagnosis = "unset"
    /\ run = 1
    /\ prev = NoPrev
    /\ CliIdle
    /\ MasksIdle
    /\ ScanIdle
    /\ BoldOnlyIdle

Raise(type, stage) ==
    /\ pc' = "failed"
    /\ err' = [type |-> type, stage |-> stage]

Write(name, content) ==
    /\ disk' = WriteFile(disk, name, content)
    /\ log' = Append(log, name)

\* ---------------------------------------------------------------- actions
\* lines 189-194: flatten the lists, refuse a sample smaller than 3
ValidateMutant ==
    /\ pc = "start"
    /\ IF Len(spatial_info_list) < MinSample - 1
       THEN Raise("ValueError", "validate")
       ELSE pc' = "makedirs" /\ err' = err
    /\ UNCHANGED <<other_nodes, inputs, i, arrays, dir_exists, disk, log, dataset_stats,
                   dataset_diagnosis, run, prev>>

\* lines 189-197 with the output directory made before the sample is counted
ValidateAfterMakedirs ==
    /\ pc = "start"
    /\ dir_exists' = TRUE
    /\ IF Len(spatial_info_list) < MinSample
       THEN Raise("ValueError", "validate")
       ELSE pc' = "makedirs" /\ err' = err
    /\ UNCHANGED <<other_nodes, inputs, i, arrays, disk, log, dataset_stats,
                   dataset_diagnosis, run, prev>>

Validate ==
    /\ pc = "start"
    /\ IF Len(spatial_info_list) < MinSample
       THEN Raise("ValueError", "validate")
       ELSE pc' = "makedirs" /\ err' = err
    /\ UNCHANGED <<other_nodes, inputs, i, arrays, dir_exists, disk, log, dataset_stats,
                   dataset_diagnosis, run, prev>>

\* lines 196-197: os.makedirs(out_dir, exist_ok=True)
MakeDirsMutant ==
    /\ pc = "makedirs"
    /\ IF dir_exists
       THEN Raise("FileExistsError", "makedirs") /\ UNCHANGED dir_exists
       ELSE pc' = "crosscorr" /\ dir_exists' = TRUE /\ err' = err
    /\ UNCHANGED <<other_nodes, inputs, i, arrays, disk, log, dataset_stats,
                   dataset_diagnosis, run, prev>>

MakeDirs ==
    /\ pc = "makedirs"
    /\ pc' = "crosscorr"
    /\ dir_exists' = TRUE
    /\ UNCHANGED <<other_nodes, inputs, i, arrays, disk, log, err, dataset_stats,
                   dataset_diagnosis, run, prev>>

\* lines 199-207: load the mask, scale the template, write
\* spatial_crosscorrelations.png
CrossCorr ==
    /\ pc = "crosscorr"
    /\ IF spatial_crosscorrelations_ok(spatial_info_list)
       THEN /\ Write(CrossCorrName, Png)
            /\ pc' = "stack"
            /\ err' = err
       ELSE /\ Raise("ShapeError", "spatial_crosscorrelations")
            /\ UNCHANGED <<disk, log>>
    /\ UNCHANGED <<other_nodes, inputs, i, arrays, dir_exists, dataset_stats,
                   dataset_diagnosis, run, prev>>

\* zip(merged_spatial_info, merged_analysis_dict, merged_file_dict) stops at
\* the shortest list (215)
Zipped ==
    Min(Len(spatial_info_list), Min(Len(analysis_dict_list), Len(file_dict_list)))

\* lines 209-234: one pass over the zipped scans, reading every seed map of
\* every scan, then the four np.array calls, then prior_maps of the last
\* scan the loop saw
Stack ==
    /\ pc = "stack"
    /\ LET z     == Zipped
           std   == np_array_1d([j \in 1..z |-> spatial_info_list[j].temporal_std])
           VE    == np_array_1d([j \in 1..z |-> spatial_info_list[j].VE_spatial])
           DR    == np_array([j \in 1..z |-> spatial_info_list[j].DR_BOLD])
           dual  == np_array([j \in 1..z |-> spatial_info_list[j].dual_ICA_maps])
           seeds == [j \in 1..z |-> analysis_dict_list[j].seed_map_files]
       IN  IF \E j \in 1..z : \E c \in DOMAIN seeds[j] : ~LoadSeedOk(seeds[j][c])
           THEN Raise("IndexError", "seed_map_files") /\ UNCHANGED <<arrays, i>>
           ELSE IF \E a \in {std, VE, DR, dual} : NpArrayRaises(a)
           THEN Raise("ValueError", "np.array") /\ UNCHANGED <<arrays, i>>
           ELSE IF z = 0
           THEN Raise("NameError", "prior_maps") /\ UNCHANGED <<arrays, i>>
           ELSE /\ arrays' = [stacked |-> TRUE,
                              std_maps |-> std,
                              VE_maps |-> VE,
                              DR_maps_list |-> DR,
                              dual_ICA_maps_list |-> dual,
                              seed_maps_list |-> seeds,
                              tdof_list |-> [j \in 1..z |-> file_dict_list[j].tDOF],
                              prior_maps |-> spatial_info_list[z].prior_maps,
                              num_priors |-> Len(spatial_info_list[z].prior_maps)]
                /\ pc' = "DR"
                /\ i' = 0
                /\ err' = err
    /\ UNCHANGED <<other_nodes, inputs, dir_exists, disk, log, dataset_stats,
                   dataset_diagnosis, run, prev>>

FamilyArray(family) ==
    CASE family = "DR" -> arrays.DR_maps_list
      [] family = "dual_ICA" -> arrays.dual_ICA_maps_list
      [] family = "seed_FC" -> arrays.seed_maps_list

\* the body of a per-component loop up to analysis_QC (236-238, 243-245,
\* 265-267): slice component i, render the figure, keep the statistics
LoopQC(family) ==
    /\ pc = family
    /\ dataset_stats = NoStats
    /\ i < arrays.num_priors
    /\ IF SliceOk(FamilyArray(family), i)
       THEN /\ Write(FigName(family, i), Png)
            /\ dataset_stats' = analysis_QC(FamilyArray(family).rows,
                                            arrays.prior_maps[i + 1],
                                            arrays.std_maps, arrays.VE_maps,
                                            arrays.tdof_list)
            /\ UNCHANGED <<pc, err>>
       ELSE /\ Raise("IndexError", family)
            /\ UNCHANGED <<disk, log, dataset_stats>>
    /\ UNCHANGED <<other_nodes, inputs, i, arrays, dir_exists, dataset_diagnosis, run, prev>>

\* pd.DataFrame(dataset_stats, index=[1]).to_csv(...) (239, 246, 268)
LoopCsv(family) ==
    /\ pc = family
    /\ dataset_stats # NoStats
    /\ Write(CsvName(family, i), dataset_stats)
    /\ dataset_stats' = NoStats
    /\ i' = i + 1
    /\ UNCHANGED <<other_nodes, inputs, pc, arrays, dir_exists, err, dataset_diagnosis, run, prev>>

LoopEndMutant(family, next) ==
    /\ pc = family
    /\ dataset_stats = NoStats
    /\ i >= arrays.num_priors - 1
    /\ pc' = next
    /\ UNCHANGED <<other_nodes, inputs, i, arrays, dir_exists, disk, log, err, dataset_stats,
                   dataset_diagnosis, run, prev>>

LoopEnd(family, next) ==
    /\ pc = family
    /\ dataset_stats = NoStats
    /\ i = arrays.num_priors
    /\ pc' = next
    /\ UNCHANGED <<other_nodes, inputs, i, arrays, dir_exists, disk, log, err, dataset_stats,
                   dataset_diagnosis, run, prev>>

DR_QC == LoopQC("DR")
DR_to_csv == LoopCsv("DR")
DR_end == LoopEnd("DR", "dual_ICA_check")

DualICACheckMutant ==
    /\ pc = "dual_ICA_check"
    /\ IF ~ShapeOk(arrays.dual_ICA_maps_list)
       THEN Raise("IndexError", "dual_ICA_check") /\ i' = i
       ELSE IF arrays.dual_ICA_maps_list.comps > 1
       THEN pc' = "dual_ICA" /\ i' = 0 /\ err' = err
       ELSE pc' = "seed_check" /\ i' = i /\ err' = err
    /\ UNCHANGED <<other_nodes, inputs, arrays, dir_exists, disk, log, dataset_stats,
                   dataset_diagnosis, run, prev>>

\* line 241: if dual_ICA_maps_list.shape[1]>0
DualICACheck ==
    /\ pc = "dual_ICA_check"
    /\ IF ~ShapeOk(arrays.dual_ICA_maps_list)
       THEN Raise("IndexError", "dual_ICA_check") /\ i' = i
       ELSE IF arrays.dual_ICA_maps_list.comps > 0
       THEN pc' = "dual_ICA" /\ i' = 0 /\ err' = err
       ELSE pc' = "seed_check" /\ i' = i /\ err' = err
    /\ UNCHANGED <<other_nodes, inputs, arrays, dir_exists, disk, log, dataset_stats,
                   dataset_diagnosis, run, prev>>

dual_ICA_QC == LoopQC("dual_ICA")
dual_ICA_to_csv == LoopCsv("dual_ICA")
dual_ICA_end == LoopEnd("dual_ICA", "seed_check")

\* lines 250-263: with seed priors, resample each one to the mask and stack
\* the seed maps of the scans
SeedCheck ==
    /\ pc = "seed_check"
    /\ IF Len(seed_prior_maps) > 0
       THEN LET seed == np_array(arrays.seed_maps_list)
            IN  IF NpArrayRaises(seed)
                THEN Raise("ValueError", "seed_FC") /\ UNCHANGED <<arrays, i>>
                ELSE /\ arrays' = [arrays EXCEPT !.prior_maps = seed_prior_maps,
                                                 !.num_priors = Len(seed_prior_maps),
                                                 !.seed_maps_list = seed]
                     /\ pc' = "seed_FC"
                     /\ i' = 0
                     /\ err' = err
       ELSE pc' = "publish" /\ UNCHANGED <<arrays, i, err>>
    /\ UNCHANGED <<other_nodes, inputs, dir_exists, disk, log, dataset_stats,
                   dataset_diagnosis, run, prev>>

seed_FC_QC == LoopQC("seed_FC")
seed_FC_to_csv == LoopCsv("seed_FC")
seed_FC_end == LoopEnd("seed_FC", "publish")

\* lines 271-273: setattr(self, 'dataset_diagnosis', out_dir)
Publish ==
    /\ pc = "publish"
    /\ dataset_diagnosis' = "dataset_diagnosis"
    /\ pc' = "done"
    /\ UNCHANGED <<other_nodes, inputs, i, arrays, dir_exists, disk, log, err, dataset_stats,
                   run, prev>>

Terminated == pc \in {"done", "failed"}

\* the interface is run again on the same inputs and working directory
Rerun ==
    /\ Terminated
    /\ run < MaxRuns
    /\ run' = run + 1
    /\ prev' = [pc |-> pc, disk |-> disk]
    /\ pc' = "start"
    /\ i' = 0
    /\ arrays' = NoArrays
    /\ log' = <<>>
    /\ err' = NoErr
    /\ dataset_stats' = NoStats
    /\ dataset_diagnosis' = "unset"
    /\ UNCHANGED <<other_nodes, inputs, dir_exists, disk>>

Next ==
    \/ Validate
    \/ MakeDirs
    \/ CrossCorr
    \/ Stack
    \/ DR_QC
    \/ DR_to_csv
    \/ DR_end
    \/ DualICACheck
    \/ dual_ICA_QC
    \/ dual_ICA_to_csv
    \/ dual_ICA_end
    \/ SeedCheck
    \/ seed_FC_QC
    \/ seed_FC_to_csv
    \/ seed_FC_end
    \/ Publish
    \/ Rerun

Spec == Init /\ [][Next]_vars

\* ------------------------------------------------------ execute_workflow
\* the DatasetDiagnosis node is not run
DiagnosisIdle ==
    /\ spatial_info_list = <<>>
    /\ analysis_dict_list = <<>>
    /\ file_dict_list = <<>>
    /\ seed_prior_maps = <<>>
    /\ np_ragged = "raise"
    /\ pc = "off"
    /\ i = 0
    /\ arrays = NoArrays
    /\ dir_exists = FALSE
    /\ disk = <<>>
    /\ log = <<>>
    /\ err = NoErr
    /\ dataset_stats = NoStats
    /\ dataset_diagnosis = "unset"
    /\ run = 1
    /\ prev = NoPrev

\* what a step of execute_workflow leaves alone
cli_frame == <<diagnosis_vars, masks_vars, scan_vars, bold_only_vars>>

\* line 518 with one record name for every step
CliFileShared(step) == <<"rabies", "step", "pkl">>

\* f'{output_folder}/rabies_{opts.rabies_step}.pkl' (518) and the log file
\* of line 531
CliFile(step) == <<"rabies", step, "pkl">>
LogFile(step) == <<"rabies", step, "log">>
BoilerplateFile(step) == <<"boilerplate", step, "txt">>
\* output_folder+'/template_files': the copy convert_to_RAS writes
TemplateFile(f) == <<"template_files", f, "nii.gz">>

\* the exit status of the process: 0 for a normal return, 2 for an argparse
\* error, 1 for an uncaught exception
ExitStatus ==
    IF raised = NoExc THEN 0 ELSE IF raised.type = "SystemExit" THEN 2 ELSE 1

\* an exception leaves execute_workflow: the process ends
CliRaise(type, at) ==
    /\ cli_pc' = "exited"
    /\ raised' = [type |-> type, at |-> at]

\* log.info / log.critical: a line in the log file of the current step
LogLine(d, level, msg) ==
    [d EXCEPT ![LogFile(opts.rabies_step)].lines =
        Append(@, [level |-> level, msg |-> msg])]

\* 506-513: parse the command line. argparse ends the process with status
\* 2 on a word that is no sub-command and on a --data_type of preprocess
\* that is none of its choices; without a sub-command there is no
\* opts.output_dir, the help is printed and the function returns.
Invoke(word, read_datasink) ==
    /\ cli_pc \in {"idle", "exited"}
    /\ invocation < MaxInvocations
    /\ invocation' = invocation + 1
    /\ before' = output_folder
    /\ opts' = [rabies_step |-> word, read_datasink |-> read_datasink,
                invocation |-> invocation + 1]
    /\ workflow' = "none"
    /\ wf_args' = NoArgs
    /\ file_idx' = 0
    /\ IF word = "no_command"
       THEN cli_pc' = "exited" /\ raised' = NoExc
       ELSE IF \/ word \notin Steps
               \/ word = "preprocess" /\ files.data_type \notin ValidDataTypes
       THEN CliRaise("SystemExit", "parse_args")
       ELSE cli_pc' = "makedirs" /\ raised' = NoExc
    /\ UNCHANGED <<cli_frame, files, folder_exists, output_folder>>

\* 515-516
MakeOutputFolder ==
    /\ cli_pc = "makedirs"
    /\ folder_exists' = TRUE
    /\ cli_pc' = "previous_run"
    /\ UNCHANGED <<cli_frame, files, output_folder, opts, file_idx, workflow, wf_args,
                   raised, invocation, before>>

\* 518-525: a previous run of the same step is refused
PreviousRunMutant ==
    /\ cli_pc = "previous_run"
    /\ cli_pc' = "dump"
    /\ UNCHANGED <<cli_frame, files, folder_exists, output_folder, opts, file_idx,
                   workflow, wf_args, raised, invocation, before>>

PreviousRun ==
    /\ cli_pc = "previous_run"
    /\ IF CliFile(opts.rabies_step) \in DOMAIN output_folder
       THEN CliRaise("ValueError", "previous_run")
       ELSE cli_pc' = "dump" /\ raised' = raised
    /\ UNCHANGED <<cli_frame, files, folder_exists, output_folder, opts, file_idx,
                   workflow, wf_args, invocation, before>>

\* 527-528 left out: the options are not written when the step begins
DumpOptsSkipped ==
    /\ cli_pc = "dump"
    /\ cli_pc' = "logging"
    /\ UNCHANGED <<cli_frame, files, folder_exists, output_folder, opts, file_idx,
                   workflow, wf_args, raised, invocation, before>>

\* 527-528: pickle.dump(opts)
DumpOpts ==
    /\ cli_pc = "dump"
    /\ output_folder' =
        WriteFile(output_folder, CliFile(opts.rabies_step), [pickle |-> opts])
    /\ cli_pc' = "logging"
    /\ UNCHANGED <<cli_frame, files, folder_exists, opts, file_idx, workflow, wf_args,
                   raised, invocation, before>>

\* 530-552: the log file is opened with filemode='w'; the version and the
\* command line are logged
StartLog ==
    /\ cli_pc = "logging"
    /\ output_folder' =
        WriteFile(output_folder, LogFile(opts.rabies_step),
                  [invocation |-> invocation,
                   lines |-> <<[level |-> "INFO", msg |-> "version"],
                               [level |-> "INFO", msg |-> "cli_inputs"]>>])
    /\ cli_pc' = "dispatch"
    /\ UNCHANGED <<cli_frame, files, folder_exists, opts, file_idx, workflow, wf_args,
                   raised, invocation, before>>

\* 554-561
Dispatch ==
    /\ cli_pc = "dispatch"
    /\ cli_pc' = opts.rabies_step
    /\ UNCHANGED <<cli_frame, files, folder_exists, output_folder, opts, file_idx,
                   workflow, wf_args, raised, invocation, before>>

\* 744-752: analysis() unpickles the options of the confound correction
Analysis ==
    /\ cli_pc = "analysis"
    /\ IF CliFile("confound_correction") \in DOMAIN output_folder
       THEN cli_pc' = "confound_correction" /\ raised' = raised
       ELSE CliRaise("FileNotFoundError", "analysis")
    /\ UNCHANGED <<cli_frame, files, folder_exists, output_folder, opts, file_idx,
                   workflow, wf_args, invocation, before>>

\* confound_correction() handed the options of the command line whatever
\* the step
cr_opts_of_command_line == opts

\* the opts confound_correction() is called with: those of the command
\* line (557) or those analysis() unpickled (747-750)
cr_opts ==
    IF opts.rabies_step = "confound_correction"
    THEN opts
    ELSE output_folder[CliFile("confound_correction")].pickle

\* the opts preprocess() is called with: those of the command line (555) or
\* those confound_correction() unpickled (724-726)
preprocess_opts ==
    IF opts.rabies_step = "preprocess"
    THEN opts
    ELSE output_folder[CliFile("preprocess")].pickle

\* the analysis_opts of confound_correction(): None (here NoOpts) from the
\* command line (557), the command line's opts from analysis() (750)
analysis_opts == IF opts.rabies_step = "analysis" THEN opts ELSE NoOpts

\* 723-741: confound_correction() unpickles the options of the
\* preprocessing; with --read_datasink it builds the detached workflow,
\* otherwise it calls preprocess() with the unpickled options
ConfoundCorrection ==
    /\ cli_pc = "confound_correction"
    /\ IF CliFile("preprocess") \notin DOMAIN output_folder
       THEN /\ CliRaise("FileNotFoundError", "confound_correction")
            /\ UNCHANGED <<output_folder, workflow, wf_args>>
       ELSE IF cr_opts.read_datasink
       THEN /\ output_folder' =
                    WriteFile(output_folder, BoilerplateFile("confound_correction"),
                              [by |-> invocation])
            /\ workflow' = "built"
            /\ wf_args' = [kind |-> "detached_confound_correction_wf",
                            preprocess_opts |-> preprocess_opts,
                            cr_opts |-> cr_opts,
                            analysis_opts |-> analysis_opts]
            /\ cli_pc' = "run"
            /\ raised' = raised
       ELSE /\ cli_pc' = "preprocess"
            /\ UNCHANGED <<output_folder, workflow, wf_args, raised>>
    /\ UNCHANGED <<cli_frame, files, folder_exists, opts, file_idx, invocation, before>>

\* 576-648: the BIDS directory, --data_type and --brain_extraction
PreprocessOptions ==
    /\ cli_pc = "preprocess"
    /\ IF ~files.bids_dir
       THEN CliRaise("ValueError", "bids_dir") /\ UNCHANGED output_folder
       ELSE /\ output_folder' = LogLine(output_folder, "INFO", "bids_tree")
            /\ IF files.data_type \notin ValidDataTypes
               THEN CliRaise("ValueError", "data_type")
               ELSE IF files.brain_extraction /\ ~files.masking
               THEN CliRaise("ValueError", "brain_extraction")
               ELSE cli_pc' = "anat_template" /\ raised' = raised
    /\ UNCHANGED <<cli_frame, files, folder_exists, opts, file_idx, workflow, wf_args,
                   invocation, before>>

\* a converted image; its voxels are those of the file it was made from
Nifti == [format |-> "nii.gz"]

\* 650-654: the anatomical template
AnatTemplate ==
    /\ cli_pc = "anat_template"
    /\ IF ~files.anat_template
       THEN /\ CliRaise("ValueError", "isfile")
            /\ UNCHANGED <<output_folder, file_idx>>
       ELSE /\ output_folder' =
                    WriteFile(output_folder, TemplateFile("anat_template"), Nifti)
            /\ file_idx' = 1
            /\ cli_pc' = "atlas_files"
            /\ raised' = raised
    /\ UNCHANGED <<cli_frame, files, folder_exists, opts, workflow, wf_args, invocation, before>>

\* 793-798: TRUE when check_binary_masks raises, that is when
\* ((array != 1)*(array != 0)).sum() > 0
check_binary_masks_first_voxel(array) ==
    array[1] # 1 /\ array[1] # 0

check_binary_masks(array) ==
    Cardinality({v \in DOMAIN array : array[v] # 1 /\ array[v] # 0}) > 0

\* 801-806: TRUE when check_template_overlap raises. The condition reads
\* `not origins equal and directions equal`, in which `not` binds to the
\* first comparison only.
check_template_overlap(template, mask) ==
    (~(template.origin = mask.origin)) /\ template.direction = mask.direction

\* 656-682: the next atlas file: it exists, it is binary (not asked of the
\* labels), it is converted into template_files, it overlaps the template
AtlasFile ==
    /\ cli_pc = "atlas_files"
    /\ LET f == MaskOrder[file_idx]
           file == files.atlas[f]
       IN  IF ~file.isfile
           THEN /\ CliRaise("ValueError", "isfile")
                /\ UNCHANGED <<output_folder, file_idx>>
           ELSE IF f # "labels" /\ check_binary_masks(file.array)
           THEN /\ CliRaise("ValueError", "check_binary_masks")
                /\ UNCHANGED <<output_folder, file_idx>>
           ELSE /\ output_folder' = WriteFile(output_folder, TemplateFile(f), Nifti)
                /\ IF check_template_overlap(TemplateGeometry, file.geometry)
                   THEN /\ CliRaise("ValueError", "check_template_overlap")
                        /\ UNCHANGED file_idx
                   ELSE IF file_idx < Len(MaskOrder)
                   THEN /\ file_idx' = file_idx + 1
                        /\ UNCHANGED <<cli_pc, raised>>
                   ELSE /\ cli_pc' = "resampling"
                        /\ UNCHANGED <<file_idx, raised>>
    /\ UNCHANGED <<cli_frame, files, folder_exists, opts, workflow, wf_args, invocation, before>>

\* 809-821 with the parts counted but not parsed
check_resampling_syntax_count_only(resampling) ==
    /\ resampling # InputsDefined
    /\ Len(resampling) # 3

\* 809-821: TRUE when check_resampling_syntax raises
check_resampling_syntax(resampling) ==
    /\ resampling # InputsDefined
    /\ ~(/\ Len(resampling) = 3
         /\ \A part \in 1..Len(resampling) : resampling[part] = "num")

\* 684-686
ResamplingSyntax ==
    /\ cli_pc = "resampling"
    /\ IF \E r \in ResamplingOptions : check_resampling_syntax(files.resampling[r])
       THEN CliRaise("ValueError", "check_resampling_syntax")
       ELSE cli_pc' = "init_main_wf" /\ raised' = raised
    /\ UNCHANGED <<cli_frame, files, folder_exists, output_folder, opts, file_idx,
                   workflow, wf_args, invocation, before>>

\* 688-712: the boilerplate is written and init_main_wf builds the workflow
InitMainWf ==
    /\ cli_pc = "init_main_wf"
    /\ output_folder' =
        WriteFile(output_folder, BoilerplateFile("preprocess"), [by |-> invocation])
    /\ workflow' = "built"
    /\ wf_args' = [kind |-> "init_main_wf",
                    preprocess_opts |-> preprocess_opts,
                    cr_opts |-> IF opts.rabies_step = "preprocess"
                                THEN NoOpts ELSE cr_opts,
                    analysis_opts |-> analysis_opts]
    /\ cli_pc' = "run"
    /\ UNCHANGED <<cli_frame, files, folder_exists, opts, file_idx, raised,
                   invocation, before>>

\* what workflow.run can raise: errors (subclasses of Exception) and the
\* interrupts that `except Exception` does not catch
Errors == {"RuntimeError", "ValueError"}
Interrupts == {"KeyboardInterrupt"}
Outcomes == {"completed"} \cup Errors \cup Interrupts

\* 562-572: the workflow is run; an Exception is logged as critical, with
\* the exception in the message, and raised again
RunWorkflowMutant(outcome) ==
    /\ cli_pc = "run"
    /\ cli_pc' = "exited"
    /\ output_folder' =
        IF outcome \in Errors
        THEN LogLine(LogLine(output_folder, "INFO", "running"), "CRITICAL", outcome)
        ELSE LogLine(output_folder, "INFO", "running")
    /\ workflow' = IF outcome = "completed" THEN "ran" ELSE workflow
    /\ raised' = IF outcome \in Interrupts
                 THEN [type |-> outcome, at |-> "workflow.run"] ELSE raised
    /\ UNCHANGED <<cli_frame, files, folder_exists, opts, file_idx, wf_args,
                   invocation, before>>

RunWorkflow(outcome) ==
    /\ cli_pc = "run"
    /\ cli_pc' = "exited"
    /\ output_folder' =
        IF outcome \in Errors
        THEN LogLine(LogLine(output_folder, "INFO", "running"), "CRITICAL", outcome)
        ELSE LogLine(output_folder, "INFO", "running")
    /\ workflow' = IF outcome = "completed" THEN "ran" ELSE workflow
    /\ raised' = IF outcome = "completed"
                 THEN raised ELSE [type |-> outcome, at |-> "workflow.run"]
    /\ UNCHANGED <<cli_frame, files, folder_exists, opts, file_idx, wf_args,
                   invocation, before>>

InitCLI ==
    /\ DiagnosisIdle
    /\ BoldOnlyIdle
    /\ MasksIdle
    /\ ScanIdle
    /\ files \in CommandInputs
    /\ folder_exists \in BOOLEAN
    /\ output_folder = <<>>
    /\ opts = NoOpts
    /\ cli_pc = "idle"
    /\ file_idx = 0
    /\ workflow = "none"
    /\ wf_args = NoArgs
    /\ raised = NoExc
    /\ invocation = 0
    /\ before = <<>>

\* --read_datasink is an option of the confound_correction sub-command
NextCLI ==
    \/ \E word \in CommandWords, read_datasink \in BOOLEAN :
            /\ read_datasink => word = "confound_correction"
            /\ Invoke(word, read_datasink)
    \/ MakeOutputFolder
    \/ PreviousRun
    \/ DumpOpts
    \/ StartLog
    \/ Dispatch
    \/ Analysis
    \/ ConfoundCorrection
    \/ PreprocessOptions
    \/ AnatTemplate
    \/ AtlasFile
    \/ ResamplingSyntax
    \/ InitMainWf
    \/ \E outcome \in Outcomes : RunWorkflow(outcome)

SpecCLI == InitCLI /\ [][NextCLI]_vars

\* ---------------------------------------------------------------- PrepMasks
\* what a step of PrepMasks leaves alone
masks_frame == <<diagnosis_vars, cli_vars, scan_vars, bold_only_vars>>
pm_inputs == <<mask_dict_list, DSURQE_regions, environ, atlas_dirs, nifti, border>>

PmRaise(type, stage) ==
    /\ pm_pc' = "failed"
    /\ pm_err' = [type |-> type, stage |-> stage]

\* line 38: mask_dict = merged[0]
last_entry(merged) == merged[Len(merged)]
first_entry(merged) == merged[1]

mask_dict == first_entry(mask_dict_list)
brain_mask_file == mask_dict.mask_file
WM_mask_file == mask_dict.WM_mask_file
CSF_mask_file == mask_dict.CSF_mask_file

\* 37-47: the first dictionary is read and its template, resampled to the
\* spacing of the brain mask, is written as display_template.nii.gz
ReadMaskDict ==
    /\ pm_pc = "start"
    /\ IF Len(mask_dict_list) = 0
       THEN PmRaise("IndexError", "mask_dict") /\ UNCHANGED cwd
       ELSE /\ cwd' = WriteFile(cwd, WorkPath("display_template.nii.gz"),
                        [resampled |-> mask_dict.preprocess_anat_template,
                         onto |-> brain_mask_file])
            /\ pm_pc' = "hemispheres"
            /\ pm_err' = pm_err
    /\ UNCHANGED <<masks_frame, pm_inputs, hemispheres, mask_file_dict, consulted>>

\* 50-53: the directory of the atlas, from the environment names defined
rabies_path_home_first(env) ==
    IF "HOME" \in env THEN "home" ELSE "xdg"

rabies_path(env) ==
    IF "XDG_DATA_HOME" \in env THEN "xdg" ELSE "home"

\* the names lines 50-53 look up in os.environ
env_lookups(env) ==
    IF "XDG_DATA_HOME" \in env THEN {"XDG_DATA_HOME"} ELSE {"XDG_DATA_HOME", "HOME"}

\* resample_mask of lines 54-57: reads the atlas mask of one hemisphere and
\* returns the path of its copy on the grid of the brain mask; it fails
\* when the atlas file is not there
resample_mask_ok(dir, dirs) == dir \in dirs
resample_mask(side) == WorkPath(side)

\* 49-60, with the flag tested on the first line left out
HemispheresAlways ==
    /\ pm_pc = "hemispheres"
    /\ consulted' = consulted \cup env_lookups(environ) \cup {rabies_path(environ)}
    /\ hemispheres' = [right |-> resample_mask("right_hem_mask"),
                       left |-> resample_mask("left_hem_mask")]
    /\ pm_pc' = "prior_maps"
    /\ UNCHANGED <<masks_frame, pm_inputs, cwd, mask_file_dict, pm_err>>

\* 49-60: the hemisphere masks of the atlas, or two empty strings
Hemispheres ==
    /\ pm_pc = "hemispheres"
    /\ IF DSURQE_regions
       THEN IF environ = {}
            THEN /\ PmRaise("KeyError", "rabies_path")
                 /\ consulted' = consulted \cup env_lookups(environ)
                 /\ UNCHANGED <<hemispheres, cwd>>
            ELSE /\ consulted' = consulted \cup env_lookups(environ)
                                    \cup {rabies_path(environ)}
                 /\ IF resample_mask_ok(rabies_path(environ), atlas_dirs)
                    THEN /\ hemispheres' =
                                [right |-> resample_mask("right_hem_mask"),
                                 left |-> resample_mask("left_hem_mask")]
                         /\ cwd' = WriteFile(
                                WriteFile(cwd, resample_mask("right_hem_mask"),
                                          [resampled |-> rabies_path(environ),
                                           onto |-> brain_mask_file]),
                                resample_mask("left_hem_mask"),
                                [resampled |-> rabies_path(environ),
                                 onto |-> brain_mask_file])
                         /\ pm_pc' = "prior_maps"
                         /\ pm_err' = pm_err
                    ELSE /\ PmRaise("RuntimeError", "resample_mask")
                         /\ UNCHANGED <<hemispheres, cwd>>
       ELSE /\ hemispheres' = [right |-> EmptyPath, left |-> EmptyPath]
            /\ pm_pc' = "prior_maps"
            /\ UNCHANGED <<consulted, cwd, pm_err>>
    /\ UNCHANGED <<masks_frame, pm_inputs, mask_file_dict>>

\* 62-63: resample_IC_file returns the path of the prior maps resampled
\* onto the brain mask
resample_IC_file == WorkPath("prior_maps")

ResamplePriors ==
    /\ pm_pc = "prior_maps"
    /\ cwd' = WriteFile(cwd, resample_IC_file,
                        [resampled |-> "prior_maps", onto |-> brain_mask_file])
    /\ pm_pc' = "edge_mask"
    /\ UNCHANGED <<masks_frame, pm_inputs, hemispheres, mask_file_dict, pm_err,
                   consulted>>

\* the neighbours of voxel v along the axis
Neighbours(v) == {v - 1, v + 1}

\* one-voxel erosion: a voxel stays when every neighbour is in the mask; a
\* neighbour outside the image is background or is left out
Erode(mask, b) ==
    {v \in mask : \A n \in Neighbours(v) :
        IF n \in Image THEN n \in mask ELSE b = "ignored"}

RECURSIVE ErodeTimes(_, _, _)
ErodeTimes(mask, times, b) ==
    IF times = 0 THEN mask ELSE ErodeTimes(Erode(mask, b), times - 1, b)

\* compute_edge_mask: the mask minus the mask eroded by num_edge_voxels
compute_edge_mask(mask, num_edge_voxels, b) ==
    mask \ ErodeTimes(mask, num_edge_voxels, b)

\* line 66: num_edge_voxels=1
edge_mask_two_voxels(mask, b) == compute_edge_mask(mask, 2, b)
edge_mask(mask, b) == compute_edge_mask(mask, 1, b)

edge_mask_file == WorkPath("edge_mask.nii.gz")

\* 65-66
EdgeMask ==
    /\ pm_pc = "edge_mask"
    /\ cwd' = WriteFile(cwd, edge_mask_file,
                        [voxels |-> edge_mask(nifti[brain_mask_file], border)])
    /\ pm_pc' = "mask_file_dict"
    /\ UNCHANGED <<masks_frame, pm_inputs, hemispheres, mask_file_dict, pm_err,
                   consulted>>

\* 67-70
SetMaskFileDict ==
    /\ pm_pc = "mask_file_dict"
    /\ mask_file_dict' =
        [template_file |-> WorkPath("display_template.nii.gz"),
         brain_mask |-> brain_mask_file,
         WM_mask |-> WM_mask_file,
         CSF_mask |-> CSF_mask_file,
         edge_mask |-> edge_mask_file,
         right_hem_mask |-> hemispheres.right,
         left_hem_mask |-> hemispheres.left,
         prior_maps |-> resample_IC_file]
    /\ pm_pc' = "done"
    /\ UNCHANGED <<masks_frame, pm_inputs, hemispheres, cwd, pm_err, consulted>>

InitMasks ==
    /\ DiagnosisIdle
    /\ BoldOnlyIdle
    /\ CliIdle
    /\ ScanIdle
    /\ mask_dict_list \in MaskDictLists
    /\ DSURQE_regions \in BOOLEAN
    /\ environ \in SUBSET EnvNames
    /\ atlas_dirs \in SUBSET AtlasDirs
    /\ nifti \in {MaskImages(m) : m \in SUBSET Image}
    /\ border \in Borders
    /\ pm_pc = "start"
    /\ hemispheres = NoHemispheres
    /\ cwd = <<>>
    /\ mask_file_dict = <<>>
    /\ pm_err = NoErr
    /\ consulted = {}

NextMasks ==
    \/ ReadMaskDict
    \/ Hemispheres
    \/ ResamplePriors
    \/ EdgeMask
    \/ SetMaskFileDict

SpecMasks == InitMasks /\ [][NextMasks]_vars

\* ------------------------------------------------------------ ScanDiagnosis
\* what a step of ScanDiagnosis leaves alone
scan_frame == <<diagnosis_vars, cli_vars, masks_vars, bold_only_vars>>
sd_inputs == <<file_dict, prior_bold_idx, prior_confound_idx, amplitudes>>

SdRaise(type, stage) ==
    /\ sd_pc' = "failed"
    /\ sd_err' = [type |-> type, stage |-> stage]

RECURSIVE SumAmplitudes(_, _)
SumAmplitudes(idx, amp) ==
    IF idx = <<>> THEN 0 ELSE amp[Head(idx)] + SumAmplitudes(Tail(idx), amp)

\* a mean as sum over count: the no-data value (NaN) is 0 over 0
NaN == [sum |-> 0, count |-> 0]

\* process_data's average amplitude over the components of an index list:
\* the mean of their amplitudes, NaN over an empty list
average_amplitude_strict(idx, amp) ==
    [raises |-> Len(idx) = 0,
     value |-> [sum |-> SumAmplitudes(idx, amp), count |-> Len(idx)]]

average_amplitude(idx, amp) ==
    [raises |-> FALSE,
     value |-> [sum |-> SumAmplitudes(idx, amp), count |-> Len(idx)]]

\* 121-129: the index lists are made lists of int and process_data
\* computes temporal_info and spatial_info
ProcessData ==
    /\ sd_pc = "start"
    /\ LET signal == average_amplitude(prior_bold_idx, amplitudes)
           noise == average_amplitude(prior_confound_idx, amplitudes)
       IN  IF signal.raises \/ noise.raises
           THEN SdRaise("ZeroDivisionError", "process_data") /\ UNCHANGED scan_info
           ELSE /\ scan_info' =
                    [computed |-> TRUE,
                     temporal_info |-> [signal_amplitude |-> signal.value,
                                        noise_amplitude |-> noise.value],
                     spatial_info |-> [prior_bold_idx |-> prior_bold_idx]]
                /\ sd_pc' = "figures"
                /\ sd_err' = sd_err
    /\ UNCHANGED <<scan_frame, sd_inputs, figures, scan_outputs>>

\* line 135 with the name cut at its last ".nii" instead of its first
filename_template_last_nii(bold_file) ==
    IF Len(bold_file) > 1 THEN bold_file[Len(bold_file) - 1] ELSE bold_file[1]

\* line 135: pathlib.Path(bold_file).name.rsplit(".nii")[0]
filename_template(bold_file) == bold_file[1]
FigurePath(bold_file, suffix) == <<filename_template(bold_file), 0, suffix>>

\* 131-138: scan_diagnosis draws the two figures and they are saved
SaveFigures ==
    /\ sd_pc = "figures"
    /\ figures' =
        WriteFile(
            WriteFile(figures,
                      FigurePath(file_dict.bold_file, "_temporal_diagnosis.png"), Png),
            FigurePath(file_dict.bold_file, "_spatial_diagnosis.png"), Png)
    /\ sd_pc' = "outputs"
    /\ UNCHANGED <<scan_frame, sd_inputs, scan_info, scan_outputs, sd_err>>

\* 140-145
SetScanOutputs ==
    /\ sd_pc = "outputs"
    /\ scan_outputs' =
        [figure_temporal_diagnosis |->
            FigurePath(file_dict.bold_file, "_temporal_diagnosis.png"),
         figure_spatial_diagnosis |->
            FigurePath(file_dict.bold_file, "_spatial_diagnosis.png"),
         temporal_info |-> scan_info.temporal_info,
         spatial_info |-> scan_info.spatial_info]
    /\ sd_pc' = "done"
    /\ UNCHANGED <<scan_frame, sd_inputs, scan_info, figures, sd_err>>

InitScan ==
    /\ DiagnosisIdle
    /\ BoldOnlyIdle
    /\ CliIdle
    /\ MasksIdle
    /\ file_dict \in {[bold_file |-> b, CR_data_dict |-> "CR_data_dict",
                       VE_file |-> "VE_file", STD_file |-> "STD_file"] :
                        b \in BoldFiles}
    /\ prior_bold_idx \in IdxLists
    /\ prior_confound_idx \in IdxLists
    /\ amplitudes \in Amplitudes
    /\ sd_pc = "start"
    /\ scan_info = NoInfo
    /\ figures = <<>>
    /\ scan_outputs = <<>>
    /\ sd_err = NoErr

NextScan ==
    \/ ProcessData
    \/ SaveFigures
    \/ SetScanOutputs

SpecScan == InitScan /\ [][NextScan]_vars

\* ----------------------------------------------------------- --bold_only
\* what a step of the --bold_only block leaves alone
bold_only_frame == <<diagnosis_vars, cli_vars, masks_vars, scan_vars>>

\* line 599: if opts.bold_only
BoldOnly ==
    /\ bo_pc = "bold_only"
    /\ bo_pc' = IF argv.bold_only THEN TemplateOptions[1] ELSE "abspath"
    /\ UNCHANGED <<bold_only_frame, data_home, argv, template_opts, bo_log>>

\* the option after o in the block, the analysis prior_maps after the last
NextOption(o) ==
    LET k == CHOOSE n \in DOMAIN TemplateOptions : TemplateOptions[n] = o
    IN  IF k < Len(TemplateOptions) THEN TemplateOptions[k + 1] ELSE "prior_maps"

\* 600-623: an option whose string is the default string is set to the
\* EPI file and the change is logged
ReplaceDefault ==
    /\ bo_pc \in Range(TemplateOptions)
    /\ IF template_opts[bo_pc] =
            FString(cli_rabies_path(data_home), DSURQE_default[bo_pc])
       THEN /\ template_opts' =
                    [template_opts EXCEPT ![bo_pc] =
                        FString(cli_rabies_path(data_home), EPI_counterpart[bo_pc])]
            /\ bo_log' = bo_log \cup {bo_pc}
       ELSE UNCHANGED <<template_opts, bo_log>>
    /\ bo_pc' = NextOption(bo_pc)
    /\ UNCHANGED <<bold_only_frame, data_home, argv>>

\* 624-628: the same for the prior_maps of the analysis options, if any
ReplacePriorMaps ==
    /\ bo_pc = "prior_maps"
    /\ IF /\ argv.step = "analysis"
          /\ template_opts.prior_maps =
                FString(cli_rabies_path(data_home), DSURQE_default.prior_maps)
       THEN /\ template_opts' =
                    [template_opts EXCEPT !.prior_maps =
                        FString(cli_rabies_path(data_home), EPI_counterpart.prior_maps)]
            /\ bo_log' = bo_log \cup {"prior_maps"}
       ELSE UNCHANGED <<template_opts, bo_log>>
    /\ bo_pc' = "abspath"
    /\ UNCHANGED <<bold_only_frame, data_home, argv>>

\* 630-636: the six template options are made absolute paths
AbsolutePaths ==
    /\ bo_pc = "abspath"
    /\ template_opts' =
        [o \in AtlasOptions |->
            IF o = "prior_maps" THEN template_opts[o] ELSE abspath(template_opts[o])]
    /\ bo_pc' = "done"
    /\ UNCHANGED <<bold_only_frame, data_home, argv, bo_log>>

InitBoldOnly ==
    /\ DiagnosisIdle
    /\ CliIdle
    /\ MasksIdle
    /\ ScanIdle
    /\ data_home \in DataHomes
    /\ argv \in CommandLines(data_home)
    /\ template_opts = parse_args(data_home, argv)
    /\ bo_pc = "bold_only"
    /\ bo_log = {}

NextBoldOnly ==
    \/ BoldOnly
    \/ ReplaceDefault
    \/ ReplacePriorMaps
    \/ AbsolutePaths

SpecBoldOnly == InitBoldOnly /\ [][NextBoldOnly]_vars

\* ------------------------------------------------------- cohort predicates
NScans == Len(spatial_info_list)

\* the three lists have one entry per scan
Aligned == Len(analysis_dict_list) = NScans /\ Len(file_dict_list) = NScans

\* the voxel lengths of the spatial vectors of the cohort
VoxelLengths ==
    UNION {{spatial_info_list[j].temporal_std, spatial_info_list[j].VE_spatial}
           \cup Range(spatial_info_list[j].DR_BOLD)
           \cup Range(spatial_info_list[j].dual_ICA_maps) : j \in 1..NScans}
    \cup UNION {Range(analysis_dict_list[j].seed_map_files) :
                j \in DOMAIN analysis_dict_list}

VoxelConsistent == Cardinality(VoxelLengths) <= 1

\* every scan has c prior maps, k DR maps and d dual-ICA components
Uniform(c, k, d) ==
    \A j \in 1..NScans :
        /\ Len(spatial_info_list[j].prior_maps) = c
        /\ Len(spatial_info_list[j].DR_BOLD) = k
        /\ Len(spatial_info_list[j].dual_ICA_maps) = d

\* a cohort as the workflow builds it: one entry per scan in each list, one
\* voxel length, the same numbers of maps in every scan, as many DR maps as
\* priors and as many seed maps as seed priors
WellFormed ==
    /\ Aligned
    /\ VoxelConsistent
    /\ \E c \in 0..MaxComp, d \in 0..MaxComp : Uniform(c, c, d)
    /\ \A j \in DOMAIN analysis_dict_list :
            Len(analysis_dict_list[j].seed_map_files) = Len(seed_prior_maps)

FilesOf(family, c) ==
    {<<family, x, "_QC_maps.png">> : x \in 0..(c - 1)}
    \cup {<<family, x, "_QC_stats.csv">> : x \in 0..(c - 1)}

Written == Range(log)
DatasetFiles == {x \in DOMAIN disk : InDatasetDir(x)}

\* ---------------------------------------------------------------- claims

ScenarioA ==
    /\ NScans = 3
    /\ Aligned
    /\ VoxelConsistent
    /\ Uniform(2, 2, 0)
    /\ seed_prior_maps = <<>>

ExpectedA == {<<"spatial_crosscorrelations", 0, ".png">>} \cup FilesOf("DR", 2)

C4_ScenarioAFiles ==
    ScenarioA =>
        /\ pc # "failed"
        /\ Written \subseteq ExpectedA
        /\ DatasetFiles \subseteq ExpectedA
        /\ pc = "done" => (Written = ExpectedA /\ Len(log) = 5 /\ DatasetFiles = ExpectedA)

C4_Witness == ScenarioA /\ pc = "done" /\ run = 1

\* C9: within a family the components are written in index order, figure
\* then CSV, named by family and index; a completed run has written exactly
\* the files that the number of priors of the stack and the active families
\* give.
FamilyLog(family) == SelectSeq(log, LAMBDA x : x[1] = family)

InIndexOrder(family) ==
    \A q \in 1..Len(FamilyLog(family)) :
        FamilyLog(family)[q] =
            IF q % 2 = 1 THEN <<family, (q - 1) \div 2, "_QC_maps.png">>
                         ELSE <<family, (q - 2) \div 2, "_QC_stats.csv">>

LastStacked ==
    Min(NScans, Min(Len(analysis_dict_list), Len(file_dict_list)))

ExpectedFiles ==
    LET N == Len(spatial_info_list[LastStacked].prior_maps)
        d == Len(spatial_info_list[LastStacked].dual_ICA_maps)
    IN  {<<"spatial_crosscorrelations", 0, ".png">>}
        \cup FilesOf("DR", N)
        \cup (IF d > 0 THEN FilesOf("dual_ICA", N) ELSE {})
        \cup FilesOf("seed_FC", Len(seed_prior_maps))

C9_IndexOrderAndNames ==
    /\ \A family \in Families : InIndexOrder(family)
    /\ pc = "done" => (Written = ExpectedFiles /\ Len(log) = Cardinality(ExpectedFiles))

C9_Witness ==
    /\ pc = "done"
    /\ Len(FamilyLog("DR")) = 4
    /\ Len(FamilyLog("dual_ICA")) = 4
    /\ Len(FamilyLog("seed_FC")) = 2

\* C10: a second run on the same inputs and directory, after a run that
\* succeeded, succeeds too and leaves the same CSV tables with the same
\* contents.
CsvTables(d) == {x \in DOMAIN d : IsCsv(x)}

SomeDualICA == \E j \in 1..NScans : Len(spatial_info_list[j].dual_ICA_maps) > 0

CsvOf(family, c) == {<<family, x, "_QC_stats.csv">> : x \in 0..(c - 1)}

C2_OneCsvPerPriorAndFamily ==
    (NScans >= 3 /\ WellFormed /\ Terminated) =>
        /\ pc = "done"
        /\ {x \in Written : IsCsv(x)} =
            LET N == Len(spatial_info_list[NScans].prior_maps)
            IN  CsvOf("DR", N)
                \cup (IF SomeDualICA THEN CsvOf("dual_ICA", N) ELSE {})
                \cup CsvOf("seed_FC", Len(seed_prior_maps))

\* C3: scenario B (scenario A with one dual-ICA component per scan)
\* completes and writes the files of scenario A and dual_ICA0's figure and
\* CSV.
ScenarioB ==
    /\ NScans = 3
    /\ Aligned
    /\ VoxelConsistent
    /\ Uniform(2, 2, 1)
    /\ seed_prior_maps = <<>>

C3_ScenarioBCompletes ==
    (ScenarioB /\ Terminated) =>
        /\ pc = "done"
        /\ Written = ExpectedA \cup FilesOf("dual_ICA", 1)

\* C5: a run that failed while processing a family leaves no file of that
\* family in dataset_diagnosis, and the per-scan figures are as they were.
\* Stated for the first run on a well-formed cohort, where it already fails.
C5_FailedFamilyLeavesNoFile ==
    (WellFormed /\ run = 1 /\ pc = "failed" /\ err.stage \in Families) =>
        /\ \A x \in DatasetFiles : x[1] # err.stage
        /\ \A x \in ScanFigs(NScans) : x \in DOMAIN disk /\ disk[x] = Png

StackedDualCounts ==
    {Len(spatial_info_list[j].dual_ICA_maps) : j \in 1..LastStacked}

StackedDualVoxels ==
    UNION {Range(spatial_info_list[j].dual_ICA_maps) : j \in 1..LastStacked}

DualICAFilesWritten == {x \in Written : x[1] = "dual_ICA"}

C8_NoSeedPriorsNoSeedFailure ==
    seed_prior_maps = <<>> =>
        /\ \A x \in Written : x[1] # "seed_FC"
        /\ err.stage \notin {"seed_map_files", "seed_FC"}

\* ------------------------------------------------- command-line claims
\* the current invocation names a step whose pkl file was in the output
\* directory when the invocation began
HadPreviousRun ==
    /\ opts.rabies_step \in Steps
    /\ CliFile(opts.rabies_step) \in DOMAIN before

C12_SecondRunSucceeds ==
    (cli_pc = "exited" /\ HadPreviousRun) => ExitStatus = 0

\* the atlas files whose converted header differs from the template's in
\* origin or in direction
Mismatched ==
    {f \in Range(MaskOrder) : files.atlas[f].geometry # TemplateGeometry}

\* preprocess() is past its checks of the atlas files
ChecksPassed == cli_pc \in {"resampling", "init_main_wf"}

\* C13: with an atlas file whose origin or direction differs from the
\* template's, preprocess never gets past its checks of the atlas files,
\* so no workflow is built from them.
C13_GeometryMismatchRejected ==
    Mismatched # {} => ~ChecksPassed

\* the atlas file preprocess() is about to check
CurrentFile == files.atlas[MaskOrder[file_idx]]
NonBinary(array) == \E v \in DOMAIN array : array[v] \notin {0, 1}

\* C14: when preprocess reaches an existing brain, WM, CSF or vascular mask
\* with a voxel other than 0 or 1, it raises ValueError from
\* check_binary_masks with no workflow built; a mask whose voxels are all
\* 0 or 1 is not refused by check_binary_masks.
C14_BinaryMasksOnly ==
    [][(cli_pc = "atlas_files" /\ MaskOrder[file_idx] # "labels" /\ CurrentFile.isfile) =>
            IF NonBinary(CurrentFile.array)
            THEN /\ cli_pc' = "exited"
                 /\ raised' = [type |-> "ValueError", at |-> "check_binary_masks"]
                 /\ workflow' = "none"
                 /\ output_folder' = output_folder
            ELSE raised'.at # "check_binary_masks"]_vars

C14_Witness ==
    /\ cli_pc = "exited"
    /\ raised = [type |-> "ValueError", at |-> "check_binary_masks"]
    /\ MaskOrder[file_idx] = "CSF_mask"
    /\ workflow = "none"

\* ------------------------------------------------------ error propagation
\* either a command line is run or the DatasetDiagnosis node is
InitRuns == Init \/ InitCLI
NextRuns == Next \/ NextCLI
SpecRuns == InitRuns /\ [][NextRuns]_vars

\* the log file of the current invocation and its last line
CurrentLog == output_folder[LogFile(opts.rabies_step)]
LastLine == CurrentLog.lines[Len(CurrentLog.lines)]
LoggedCritical ==
    /\ LogFile(opts.rabies_step) \in DOMAIN output_folder
    /\ CurrentLog.invocation = invocation
    /\ LastLine.level = "CRITICAL"

\* C15: an error of the workflow run leaves execute_workflow as the same
\* exception that was logged as critical, and execute_workflow returns
\* normally only when the workflow ran to its end; a failed run of
\* DatasetDiagnosis carries its exception, has set no output, and takes no
\* further step: the only thing that follows is a new run.
C15_ErrorsPropagate ==
    /\ []((cli_pc = "exited" /\ opts.rabies_step \in Steps) =>
            /\ LoggedCritical =>
                    raised = [type |-> LastLine.msg, at |-> "workflow.run"]
            /\ (raised.at = "workflow.run" /\ raised.type \in Errors) => LoggedCritical
            /\ raised = NoExc => (workflow = "ran" /\ ~LoggedCritical))
    /\ [](pc = "failed" => (err # NoErr /\ dataset_diagnosis = "unset"))
    /\ [][pc = "failed" => (pc' = "start" /\ run' = run + 1 /\ disk' = disk)]_vars

C15_Witness ==
    /\ cli_pc = "exited"
    /\ LoggedCritical
    /\ raised = [type |-> "RuntimeError", at |-> "workflow.run"]
    /\ workflow = "built"

\* ------------------------------------------------------- PrepMasks claims
BundleKeys ==
    {"template_file", "brain_mask", "WM_mask", "CSF_mask", "edge_mask",
     "right_hem_mask", "left_hem_mask", "prior_maps"}

\* the voxels of the brain mask of the first dictionary, and those of the
\* edge mask written
BrainMask == nifti[mask_dict_list[1].mask_file]
EdgeWritten == edge_mask_file \in DOMAIN cwd
EdgeVoxels == cwd[edge_mask_file].voxels

\* C16: the bundle is set only at the end of a run; it has exactly the
\* eight keys; its brain, WM and CSF masks are the paths of the first
\* dictionary of the list, and the template, the prior maps and the edge
\* mask are made from the template and the brain mask of the first
\* dictionary, whatever the later dictionaries hold.
C16_BundleFromFirstEntry ==
    /\ pm_pc \notin {"done", "off"} => Unset(mask_file_dict)
    /\ pm_pc = "done" =>
        /\ DOMAIN mask_file_dict = BundleKeys
        /\ mask_file_dict.brain_mask = mask_dict_list[1].mask_file
        /\ mask_file_dict.WM_mask = mask_dict_list[1].WM_mask_file
        /\ mask_file_dict.CSF_mask = mask_dict_list[1].CSF_mask_file
        /\ cwd[mask_file_dict.template_file] =
                [resampled |-> mask_dict_list[1].preprocess_anat_template,
                 onto |-> mask_dict_list[1].mask_file]
        /\ cwd[mask_file_dict.prior_maps].onto = mask_dict_list[1].mask_file
        /\ cwd[mask_file_dict.edge_mask].voxels \subseteq BrainMask

C16_Witness ==
    /\ pm_pc = "done"
    /\ Len(mask_dict_list) = 3
    /\ mask_dict_list[3] # mask_dict_list[1]
    /\ BrainMask = {2, 3}
    /\ mask_file_dict.brain_mask = SubjectPath(1, "mask_file")

\* PrepMasks is past lines 49-60
PastHemispheres == pm_pc \in {"prior_maps", "edge_mask", "mask_file_dict", "done"}
HemisphereFiles == {WorkPath("right_hem_mask"), WorkPath("left_hem_mask")}

\* C17: with the flag set the two hemisphere masks are the atlas masks
\* resampled into the working directory; with the flag unset both are the
\* empty string, no hemisphere file is written, and no environment name
\* and no atlas directory is read at any point of the run.
C17_HemispheresIffFlag ==
    /\ PastHemispheres =>
        IF DSURQE_regions
        THEN /\ hemispheres = [right |-> WorkPath("right_hem_mask"),
                               left |-> WorkPath("left_hem_mask")]
             /\ HemisphereFiles \subseteq DOMAIN cwd
             /\ \A x \in HemisphereFiles : cwd[x].resampled \in AtlasDirs
        ELSE /\ hemispheres = [right |-> EmptyPath, left |-> EmptyPath]
             /\ HemisphereFiles \cap DOMAIN cwd = {}
    /\ pm_pc = "done" =>
        /\ mask_file_dict.right_hem_mask = hemispheres.right
        /\ mask_file_dict.left_hem_mask = hemispheres.left
    /\ ~DSURQE_regions => consulted = {}

C17_Witness ==
    /\ pm_pc = "done"
    /\ ~DSURQE_regions
    /\ environ = {}
    /\ atlas_dirs = {}
    /\ mask_file_dict.right_hem_mask = EmptyPath
    /\ mask_file_dict.left_hem_mask = EmptyPath

\* the directory the atlas is looked for in, and whether it is missing
ExpectedAtlasDir == IF "XDG_DATA_HOME" \in environ THEN "xdg" ELSE "home"
AtlasMissing == environ = {} \/ ExpectedAtlasDir \notin atlas_dirs

\* C18: with the flag set, a run that has neither XDG_DATA_HOME nor HOME,
\* or whose atlas directory does not hold the hemisphere masks, ends
\* failed at lines 49-57 (or earlier) with no bundle set; the only atlas
\* directory read is $XDG_DATA_HOME/rabies when XDG_DATA_HOME is defined
\* and $HOME/.local/share/rabies otherwise.
C18_MissingAtlasIsFatal ==
    DSURQE_regions =>
        /\ (AtlasMissing /\ pm_pc \notin {"start", "hemispheres"}) =>
            /\ pm_pc = "failed"
            /\ pm_err.stage \in {"mask_dict", "rabies_path", "resample_mask"}
            /\ Unset(mask_file_dict)
        /\ consulted \cap AtlasDirs \subseteq {ExpectedAtlasDir}
        /\ PastHemispheres =>
            /\ consulted \cap AtlasDirs = {ExpectedAtlasDir}
            /\ \A x \in HemisphereFiles : cwd[x].resampled = ExpectedAtlasDir

C18_Witness ==
    /\ DSURQE_regions
    /\ pm_pc = "failed"
    /\ pm_err = [type |-> "RuntimeError", stage |-> "resample_mask"]
    /\ environ = EnvNames
    /\ atlas_dirs = {"home"}
    /\ consulted = {"XDG_DATA_HOME", "xdg"}

\* C19 as stated: the edge mask is a strict subset of the brain mask, no
\* voxel of the eroded brain mask is in it, and each of its voxels is a
\* brain voxel with a neighbour outside the brain mask.
C19_EdgeStrictSubset ==
    EdgeWritten =>
        /\ EdgeVoxels \subseteq BrainMask
        /\ EdgeVoxels # BrainMask
        /\ EdgeVoxels \cap Erode(BrainMask, border) = {}

\* C19: the edge mask is a subset of the brain mask that holds exactly the
\* brain voxels with a neighbour outside the brain mask (outside the image
\* when that counts as background); no voxel of the eroded brain mask is
\* in it; and it is a strict subset exactly when the erosion leaves a
\* voxel, so a brain mask without interior is its own edge mask.
C19_EdgeIsErosionShell ==
    EdgeWritten =>
        /\ EdgeVoxels \subseteq BrainMask
        /\ EdgeVoxels \cap Erode(BrainMask, border) = {}
        /\ \A v \in BrainMask :
            v \in EdgeVoxels <=>
                \E n \in Neighbours(v) :
                    /\ n \notin BrainMask
                    /\ n \in Image \/ border = "background"
        /\ EdgeVoxels # BrainMask <=> Erode(BrainMask, border) # {}

C19_Witness ==
    /\ EdgeWritten
    /\ BrainMask = {2, 4}
    /\ EdgeVoxels = BrainMask
    /\ border = "ignored"

BoldStem == Head(file_dict.bold_file)
TemporalFigure == <<BoldStem, 0, "_temporal_diagnosis.png">>
SpatialFigure == <<BoldStem, 0, "_spatial_diagnosis.png">>

\* C21: ScanDiagnosis writes exactly two figures into its working
\* directory, <bold-stem>_temporal_diagnosis.png and
\* <bold-stem>_spatial_diagnosis.png, where the stem is the base name of the
\* BOLD file with everything from its first ".nii" onward removed; nothing
\* is written before the figures are drawn, and the two figure paths it
\* reports as outputs are exactly the two paths it wrote.
C21_TwoFiguresNamedByStem ==
    /\ sd_pc \in {"start", "figures", "failed"} => DOMAIN figures = {}
    /\ sd_pc \in {"outputs", "done"} =>
        /\ DOMAIN figures = {TemporalFigure, SpatialFigure}
        /\ Cardinality(DOMAIN figures) = 2
    /\ sd_pc = "done" =>
        /\ scan_outputs.figure_temporal_diagnosis = TemporalFigure
        /\ scan_outputs.figure_spatial_diagnosis = SpatialFigure
        /\ {scan_outputs.figure_temporal_diagnosis,
            scan_outputs.figure_spatial_diagnosis} = DOMAIN figures

\* a scan whose file name holds ".nii" twice has run to its end
C21_Witness ==
    /\ sd_pc = "done"
    /\ Len(file_dict.bold_file) = 3
    /\ DOMAIN figures = {<<"sub-01", 0, "_temporal_diagnosis.png">>,
                         <<"sub-01", 0, "_spatial_diagnosis.png">>}
    /\ scan_outputs.figure_spatial_diagnosis \in DOMAIN figures

\* ------------------------------------------------------------------ C22
\* the place of a written file in the order of the stages
StageRank(name) ==
    CASE name[1] = "spatial_crosscorrelations" -> 0
      [] name[1] = "DR" -> 1
      [] name[1] = "dual_ICA" -> 2
      [] name[1] = "seed_FC" -> 3

\* C22: the stages of DatasetDiagnosis happen in a fixed order: the output
\* directory exists only for a cohort that passed the sample-size
\* validation, and in a first run only after it; the first file written is
\* spatial_crosscorrelations.png; every DR file is written before any
\* dual_ICA or seed_FC file (and every dual_ICA file before any seed_FC
\* file); every CSV directly follows the figure of its own family and
\* component; the dataset_diagnosis output is set exactly in a run that
\* reached its end, with no component left between figure and CSV, so a
\* failed run publishes nothing.
C22_StagesInOrder ==
    /\ dir_exists =>
        /\ NScans >= MinSample
        /\ run = 1 => pc \notin {"start", "makedirs"}
    /\ log # <<>> =>
        /\ dir_exists
        /\ log[1] = <<"spatial_crosscorrelations", 0, ".png">>
    /\ \A p, q \in DOMAIN log :
        /\ p < q => StageRank(log[p]) <= StageRank(log[q])
        /\ (q > 1 /\ p = q) => StageRank(log[q]) > 0
    /\ \A q \in DOMAIN log :
        log[q][3] = "_QC_stats.csv" =>
            /\ q > 1
            /\ log[q - 1] = <<log[q][1], log[q][2], "_QC_maps.png">>
    /\ dataset_diagnosis # "unset" <=> pc = "done"
    /\ pc = "done" =>
        /\ dataset_stats = NoStats
        /\ log[Len(log)][3] \in {"_QC_stats.csv", ".png"}
    /\ pc = "failed" => dataset_diagnosis = "unset"

\* a run through the three families has published its output
C22_Witness ==
    /\ pc = "done"
    /\ dataset_diagnosis = "dataset_diagnosis"
    /\ \E p, q, r \in DOMAIN log :
        /\ p < q /\ q < r
        /\ log[p][1] = "DR" /\ log[q][1] = "dual_ICA" /\ log[r][1] = "seed_FC"

\* ------------------------------------------------------------------ C23
\* the option record an earlier run of a step left in the output directory
StoredOpts(step) == output_folder[CliFile(step)].pickle
Stored(step) == CliFile(step) \in DOMAIN output_folder
CommandLineIfAnalysis == IF opts.rabies_step = "analysis" THEN opts ELSE NoOpts
FailsNotFound ==
    /\ cli_pc' = "exited"
    /\ raised'.type = "FileNotFoundError"
    /\ workflow' = "none"
    /\ wf_args' = NoArgs

\* C23: the steps chain through the stored option records. analysis()
\* loads rabies_confound_correction.pkl and goes on to the confound
\* correction; the confound correction loads rabies_preprocess.pkl; a
\* missing record ends the step with FileNotFoundError and no workflow. The
\* workflow is the detached confound-correction workflow exactly when the
\* stored confound-correction options have read_datasink set, and otherwise
\* the main workflow, which preprocess() builds; both are built from the
\* stored preprocess options, the stored confound-correction options and
\* the analysis options of the command line (none in a confound_correction
\* step).
C23_StepsChainThroughRecords ==
    [][/\ cli_pc = "analysis" =>
            IF Stored("confound_correction")
            THEN cli_pc' = "confound_correction" /\ raised' = NoExc
            ELSE FailsNotFound
       /\ cli_pc = "confound_correction" =>
            IF ~Stored("preprocess")
            THEN FailsNotFound
            ELSE IF StoredOpts("confound_correction").read_datasink
            THEN /\ workflow' = "built"
                 /\ wf_args' =
                        [kind |-> "detached_confound_correction_wf",
                         preprocess_opts |-> StoredOpts("preprocess"),
                         cr_opts |-> StoredOpts("confound_correction"),
                         analysis_opts |-> CommandLineIfAnalysis]
            ELSE /\ cli_pc' = "preprocess"
                 /\ workflow' = "none"
                 /\ wf_args' = NoArgs
       /\ (cli_pc = "init_main_wf" /\ opts.rabies_step # "preprocess") =>
            /\ ~StoredOpts("confound_correction").read_datasink
            /\ workflow' = "built"
            /\ wf_args' =
                    [kind |-> "init_main_wf",
                     preprocess_opts |-> StoredOpts("preprocess"),
                     cr_opts |-> StoredOpts("confound_correction"),
                     analysis_opts |-> CommandLineIfAnalysis]
      ]_vars

\* an analysis, run after a confound correction with --read_datasink that
\* was run after a preprocessing, has built the detached workflow from the
\* records of the two earlier invocations
C23_Witness ==
    /\ opts.rabies_step = "analysis"
    /\ wf_args.kind = "detached_confound_correction_wf"
    /\ wf_args.preprocess_opts.invocation = 1
    /\ wf_args.cr_opts.invocation = 2
    /\ wf_args.analysis_opts = opts

\* ------------------------------------------------------------------ C24
\* the string an atlas option came from, its default string, and whether
\* two strings name the same file
Entered(o) ==
    IF argv.typed[o] = <<>>
    THEN FString(cli_rabies_path(data_home), DSURQE_default[o])
    ELSE argv.typed[o]
SameFile(a, b) == PathStr(a) = PathStr(b)
IsDefault(o) ==
    SameFile(Entered(o), FString(cli_rabies_path(data_home), DSURQE_default[o]))
Replaced(o) ==
    SameFile(template_opts[o],
             FString(cli_rabies_path(data_home), EPI_counterpart[o]))
HasOption(o) == o # "prior_maps" \/ argv.step = "analysis"

\* C24: at the end of the --bold_only block each of the six template
\* options, and the prior_maps of the analysis options when there are any,
\* is its EPI counterpart if and only if --bold_only is set and the option
\* entered the block as its DSURQE default; an option the user typed is
\* never replaced; an option that is not replaced still names the file it
\* named on entry (so without --bold_only none is replaced).
C24_DefaultsReplacedIffBoldOnly ==
    bo_pc = "done" =>
        \A o \in AtlasOptions :
            HasOption(o) =>
                /\ Replaced(o) <=> (argv.bold_only /\ IsDefault(o))
                /\ argv.typed[o] # <<>> => ~Replaced(o)
                /\ ~Replaced(o) => SameFile(template_opts[o], Entered(o))

\* ------------------------------------------------------------------ C25
\* 'inputs_defined', or three parts between 'x's that each parse as a number
ThreeNumbers(resampling) ==
    \/ resampling = <<"inputs_defined">>
    \/ /\ Len(resampling) = 3
       /\ resampling[1] = "num" /\ resampling[2] = "num" /\ resampling[3] = "num"

\* C25: preprocess checks the nativespace, commonspace and anatomical
\* resampling options before it builds the workflow: when each of them is
\* 'inputs_defined' or three numbers joined by 'x' it goes on to build the
\* workflow with no error; when one of them is anything else the command
\* ends with a ValueError of check_resampling_syntax and no workflow; so a
\* main workflow is only ever built from options in that syntax.
C25_ResamplingSyntaxChecked ==
    [][/\ cli_pc = "resampling" =>
            IF \A r \in ResamplingOptions : ThreeNumbers(files.resampling[r])
            THEN /\ cli_pc' = "init_main_wf"
                 /\ raised' = NoExc
            ELSE /\ cli_pc' = "exited"
                 /\ raised' = [type |-> "ValueError",
                               at |-> "check_resampling_syntax"]
                 /\ workflow' = "none"
       /\ wf_args'.kind = "init_main_wf" =>
            \A r \in ResamplingOptions : ThreeNumbers(files.resampling[r])
      ]_vars

\* three parts of which one is no number have been refused
C25_Witness ==
    /\ cli_pc = "exited"
    /\ raised = [type |-> "ValueError", at |-> "check_resampling_syntax"]
    /\ files.resampling["commonspace_resampling"] = <<"num", "word", "num">>
    /\ workflow = "none"

\* ------------------------------------------------------------------ C26
\* C26: once the scans are stacked, each stacked array (temporal-std,
\* variance-explained, DR maps, dual-ICA maps, tDOF list, seed maps) has
\* one row per scan of the flattened spatial_info list, the list whose
\* length the sample-size validation counted, whatever the lengths of the
\* analysis_dict and file_dict lists.
C26_OneRowPerCountedScan ==
    (pc = "DR" /\ arrays.stacked) =>
        /\ arrays.std_maps.rows = NScans
        /\ arrays.VE_maps.rows = NScans
        /\ arrays.DR_maps_list.rows = NScans
        /\ arrays.dual_ICA_maps_list.rows = NScans
        /\ Len(arrays.tdof_list) = NScans
        /\ Len(arrays.seed_maps_list) = NScans

\* ------------------------------------------------------------------ C27
\* the per-component loop of a family is about to slice component i
AboutToSlice(family) ==
    /\ pc = family
    /\ dataset_stats = NoStats
    /\ i < arrays.num_priors

\* C27: every component index that the DR, dual_ICA and seed_FC loops
\* iterate is an index into the stacked array of its family: whenever a
\* loop is about to slice component i of a regular (three-dimensional)
\* stack, the stack has more than i components, whatever the numbers of DR
\* maps, dual-ICA components and seed maps per scan, and no loop ends in an
\* IndexError on such a stack.
C27_LoopIndexInRange ==
    /\ \A family \in Families :
        (AboutToSlice(family) /\ FamilyArray(family).ok) =>
            i < FamilyArray(family).comps
    /\ (pc = "failed" /\ err.type = "IndexError" /\ err.stage \in Families) =>
            ~FamilyArray(err.stage).ok

\* ------------------------------------------------------------------ C28
\* C28: the reference prior patterns of the DR and dual-ICA loops, and the
\* number N of components they process, are those of the prior_maps of the
\* last scan of the cohort list (the flattened spatial_info list), whatever
\* the prior_maps of the other scans.
C28_PriorsOfLastScan ==
    (arrays.stacked /\ pc \in {"DR", "dual_ICA_check", "dual_ICA"}) =>
        /\ arrays.prior_maps = spatial_info_list[NScans].prior_maps
        /\ arrays.num_priors = Len(spatial_info_list[NScans].prior_maps)

\* ------------------------------------------------------------------ C29
\* past the guard and the dump of the options
PastDump ==
    \/ cli_pc \in {"logging", "dispatch", "analysis", "confound_correction",
                   "preprocess", "anat_template", "atlas_files", "resampling",
                   "init_main_wf", "run"}
    \/ /\ cli_pc = "exited"
       /\ opts.rabies_step \in Steps
       /\ raised.at \notin {"parse_args", "previous_run"}
RecordOfThisRun ==
    /\ <<"rabies", opts.rabies_step, "pkl">> \in DOMAIN output_folder
    /\ output_folder[<<"rabies", opts.rabies_step, "pkl">>].pickle.invocation
            = invocation
RecordOfEarlierRun ==
    /\ opts.rabies_step \in Steps
    /\ <<"rabies", opts.rabies_step, "pkl">> \in DOMAIN before
    /\ before[<<"rabies", opts.rabies_step, "pkl">>].pickle.invocation < invocation

\* C29: rabies_<step>.pkl is written before the inputs of the step are
\* validated and before the workflow is built: from the dump on, and after
\* an invocation that failed in the validation, the construction or the
\* execution, the record of that invocation is in the output directory;
\* no step of the program removes or rewrites a record; and an invocation
\* that finds the record of an earlier run of its step gets no further
\* than the guard and ends in the previous-run ValueError.
C29_FailedRunBlocksRerun ==
    /\ [](PastDump => RecordOfThisRun)
    /\ [](RecordOfEarlierRun =>
            /\ cli_pc \in {"makedirs", "previous_run", "exited"}
            /\ cli_pc = "exited" =>
                    raised = [type |-> "ValueError", at |-> "previous_run"])
    /\ [][\A f \in DOMAIN output_folder :
            f[3] = "pkl" =>
                /\ f \in DOMAIN output_folder'
                /\ output_folder'[f] = output_folder[f]]_vars

\* a preprocess that failed on its BIDS directory left its record, and the
\* next preprocess on the same directory was refused
C29_Witness ==
    /\ ~files.bids_dir
    /\ opts.rabies_step = "preprocess"
    /\ invocation = 2
    /\ RecordOfEarlierRun
    /\ before[LogFile("preprocess")].invocation = 1
    /\ cli_pc = "exited"
    /\ raised = [type |-> "ValueError", at |-> "previous_run"]

\* ------------------------------------------------------------------ C30
\* an earlier invocation of the current step left its options
SameStepRanBefore ==
    \E f \in DOMAIN before :
        /\ f[3] = "pkl"
        /\ before[f].pickle.rabies_step = opts.rabies_step

\* C30: the previous-run guard is per step: an invocation ends in the previous-run ValueError only when an
\* earlier invocation of the same step left its record, and otherwise
\* passes the guard whatever records of other steps are in the directory.
C30_GuardIsPerStep ==
    /\ [](raised.at = "previous_run" => SameStepRanBefore)
    /\ [][(cli_pc = "previous_run" /\ ~SameStepRanBefore) =>
            (cli_pc' = "dump" /\ raised' = NoExc)]_vars

\* preprocess, confound_correction and analysis, run one after another
\* into one directory, each passed the guard and the last ran its workflow
C30_Witness ==
    /\ invocation = 3
    /\ opts.rabies_step = "analysis"
    /\ cli_pc = "exited"
    /\ {<<"rabies", "preprocess", "pkl">>, <<"rabies", "confound_correction", "pkl">>,
        <<"rabies", "analysis", "pkl">>} \subseteq DOMAIN output_folder
    /\ output_folder[<<"rabies", "preprocess", "pkl">>].pickle.invocation = 1
    /\ output_folder[<<"rabies", "confound_correction", "pkl">>].pickle.invocation = 2
    /\ output_folder[<<"rabies", "analysis", "pkl">>].pickle.invocation = 3
    /\ raised = NoExc
    /\ workflow = "ran"

====
